---- MODULE Spec2Model ----
(***************************************************************************)
(* Model of zhihu-download's batch pipeline:                               *)
(*   src/pages_to_urls.py    normalize, extract_urls_from_soup, main       *)
(*   src/batch_download.py   get_article_id, article_exists,               *)
(*                           process_single_url, process_urls              *)
(* Python strings are sequences of one-character strings, so that strip,   *)
(* startswith, split and the substring test `in` are computed as the code  *)
(* computes them.                                                          *)
(***************************************************************************)
EXTENDS Integers, Sequences, FiniteSets, TLC

\* ------------------------------------------------------------------------
\* Bounds of the model
\* ------------------------------------------------------------------------
\* longest worklist handed to process_urls
MaxUrls == 3

\* longest worklist the batch is run over a second time
MaxRerun == 2

\* ------------------------------------------------------------------------
\* Python str operations
\* ------------------------------------------------------------------------
\* s.startswith(p)
StartsWith(s, p) == Len(s) >= Len(p) /\ SubSeq(s, 1, Len(p)) = p

\* s.endswith(p)
EndsWith(s, p) == Len(s) >= Len(p) /\ SubSeq(s, Len(s) - Len(p) + 1, Len(s)) = p

\* `sub in s` on two str values
In(sub, s) == \E k \in 0..(Len(s) - Len(sub)) : SubSeq(s, k + 1, k + Len(sub)) = sub

\* s.find(sep): 0-based offset of the leftmost occurrence, -1 when there is none
Find(s, sep) ==
    IF In(sep, s)
    THEN CHOOSE k \in 0..(Len(s) - Len(sep)) :
            /\ SubSeq(s, k + 1, k + Len(sep)) = sep
            /\ \A j \in 0..(k - 1) : SubSeq(s, j + 1, j + Len(sep)) # sep
    ELSE -1

\* s.split(sep)[-1]: what follows the last piece cut off scanning left to right
RECURSIVE SplitLast(_, _)
SplitLast(s, sep) ==
    IF ~In(sep, s) THEN s
    ELSE SplitLast(SubSeq(s, Find(s, sep) + Len(sep) + 1, Len(s)), sep)

\* s.split(sep)[0]: what precedes the leftmost sep
SplitFirst(s, sep) == IF ~In(sep, s) THEN s ELSE SubSeq(s, 1, Find(s, sep))

\* the characters str.strip() removes (of the model's alphabet)
Whitespace == {" ", "\t", "\n"}

RECURSIVE LStrip(_)
LStrip(s) == IF s # <<>> /\ Head(s) \in Whitespace THEN LStrip(Tail(s)) ELSE s

RECURSIVE RStrip(_)
RStrip(s) ==
    IF s # <<>> /\ s[Len(s)] \in Whitespace THEN RStrip(SubSeq(s, 1, Len(s) - 1)) ELSE s

\* s.strip()
Strip(s) == RStrip(LStrip(s))

\* all sequences over S of length at most n
BoundedSeq(S, n) == UNION {[1..k -> S] : k \in 0..n}

\* ------------------------------------------------------------------------
\* batch_download.py: configuration
\* ------------------------------------------------------------------------
\* the pool size, multiprocessing.cpu_count() of the host
MAX_PROCESSES == 2

Slash == <<"/">>

BASE_DIR == <<"z", "h", "i", "h", "u">>

EXTRACTED_DIR == BASE_DIR \o Slash \o <<"m", "a", "r", "k", "d", "o", "w", "n">>

\* Python's None where an identifier is expected: no str equals it
None == <<"None">>

\* ------------------------------------------------------------------------
\* get_article_id
\* ------------------------------------------------------------------------
S_zhuanlan == <<"z","h","u","a","n","l","a","n",".","z","h","i","h","u",".","c","o","m","/","p","/">>
S_question == <<"q","u","e","s","t","i","o","n">>
S_answer == <<"a","n","s","w","e","r">>
S_zvideo == <<"z","v","i","d","e","o">>
S_column == <<"c","o","l","u","m","n">>

get_article_id(url) ==
    IF In(S_zhuanlan, url) THEN SplitFirst(SplitLast(url, S_zhuanlan), Slash)
    ELSE IF In(S_question, url) /\ In(S_answer, url)
         THEN SplitFirst(SplitLast(url, S_answer \o Slash), Slash)
    ELSE IF In(S_zvideo, url) THEN SplitFirst(SplitLast(url, S_zvideo \o Slash), Slash)
    ELSE IF In(S_column, url) THEN SplitFirst(SplitLast(url, S_column \o Slash), Slash)
    ELSE None

\* as if the test were `article_id is None`
NotId_OnlyNone(article_id) == article_id = None

\* `not article_id`: None or the empty str
NotId(article_id) == article_id = None \/ article_id = <<>>

\* ------------------------------------------------------------------------
\* Inputs of a batch: the URL lists read_urls_from_file can return and the
\* output trees process_url_file can find under EXTRACTED_DIR / stem
\* ------------------------------------------------------------------------
Https == <<"h","t","t","p","s",":","/","/">>

\* article 12
U_A == Https \o S_zhuanlan \o <<"1","2">>

\* article 123, whose identifier contains 12
U_B == Https \o S_zhuanlan \o <<"1","2","3">>

\* no recognized shape
U_X == Https \o <<"e","x",".","c","o","m","/","x">>

\* article shape with an empty identifier
U_E == Https \o S_zhuanlan

URLS == {U_A, U_B, U_X, U_E}

\* the stem of the category's URL file
Stem == <<"c">>

\* relative paths below the output directory
D_x == <<"x">>
D_x_12 == <<"x","/","1","2">>
F_12md == <<"1","2",".","m","d">>

\* [dirs, files]: the directories and the files below the output directory
\* (one tree with nested directories, one without any directory)
Trees ==
    { [dirs |-> {D_x, D_x_12}, files |-> {}],
      [dirs |-> {}, files |-> {F_12md}] }

\* str(e) of the exceptions the fetch call raises
FetchErrors == {"HTTP 403"}

VARIABLES
    urls,           \* process_urls: the worklist
    output_dir,     \* process_urls: the output directory (a path str)
    dirs,           \* file system: directories below output_dir (relative paths)
    files,          \* file system: files below output_dir (relative paths)
    pc,             \* process_urls: "pool" | "returned" | "aborted"
    run,            \* 1: first run of the batch, 2: the re-run over the same list
    next_task,      \* imap_unordered: index of the next URL handed to a worker
    inflight,       \* pool: the tasks held by worker processes, [i, st, w]:
                    \*       entry i, held by worker w, st "start" (before the
                    \*       existence check) | "fetch"
    results,        \* imap_unordered: results in completion order, not yet consumed
    success_count, failure_count, skipped_count, failed_urls,
    processed,      \* pbar.n
    taken,          \* history: per entry, times handed to a worker
    consulted,      \* history: per entry, calls of article_exists
    built,          \* history: per entry, constructions of ZhihuParser
    fetched,        \* history: per entry, what the fetch unit did, [res, err]:
                    \*          res "none" | "ctor_raised" | "returned" | "raised" |
                    \*          "returned_failure"
    outcomes,       \* history: per entry, the [kind, reason] of its consumed results
    start_tree,     \* history: [dirs, files] when the run started
    prev            \* history: outcomes and fetched of the first run, in the re-run

batch_vars ==
    <<urls, output_dir, dirs, files, pc, run, next_task, inflight, results,
      success_count, failure_count, skipped_count, failed_urls, processed,
      taken, consulted, built, fetched, outcomes, start_tree, prev>>

VARIABLES
    raw,            \* normalize: its argument
    normalized,     \* normalize: its return value, None before the call
    q_id,           \* article_exists: the identifier asked for
    q_called,       \* article_exists: whether the call was made
    q_result,       \* article_exists: its return value
    cat_pc,         \* pages_to_urls.main: "off" | "listed" | "files" | "done"
    listing,        \* pages_to_urls.main: os.listdir(cat_path)
    pending,        \* pages_to_urls.main: sorted .html names still to process
    seen,           \* pages_to_urls.main: the category's seen set
    merged,         \* pages_to_urls.main: the category's merged list
    reported,       \* pages_to_urls.main: the count printed per document
    cands,          \* history: per document read, [fn, urls]: its file name
                    \*          and the URLs that qualified in it, in order
    written         \* pages_to_urls.main: the lines of <category>.txt, None before

norm_vars == <<raw, normalized>>

exists_vars == <<q_id, q_called, q_result>>

extract_vars == <<cat_pc, listing, pending, seen, merged, reported, cands, written>>

VARIABLES
    id_url,         \* get_article_id: its argument
    id_result       \* get_article_id: its return value, "uncalled" before the call

id_vars == <<id_url, id_result>>

VARIABLES
    temp,           \* file system: the names in TEMP_DIR
    main_pc,        \* batch_download.main: "off" | "start" | "cookies" | "glob" |
                    \*   "loop" | "file" | "done" | "exit"
    cookies_file,   \* file system: the content of COOKIES_FILE, None when missing
    url_dir,        \* file system: the entries of URLS_DIR, [name, lines, tree]
    cookies,        \* main: the credential read, None before
    url_files,      \* main: the files of get_url_files() the loop has not reached
    cur_file,       \* main: the file process_url_file is working on, None outside
    total_success, total_failure, total_skipped,
    exit_code,      \* the status the process ended with, -1 while it runs
    num_read,       \* history: calls of read_urls_from_file
    clear_log       \* history: per call of cleanup_temp_files, what the run
                    \*          had done by then

main_vars ==
    <<main_pc, cookies_file, url_dir, cookies, url_files, cur_file, total_success,
      total_failure, total_skipped, exit_code, num_read, clear_log>>

vars == <<batch_vars, temp, norm_vars, exists_vars, extract_vars, id_vars, main_vars>>

Idx == 1..Len(urls)

\* the worker processes of the pool
Workers == 1..MAX_PROCESSES

\* worker w holds no task
Idle(w) == \A t \in inflight : t.w # w

\* ------------------------------------------------------------------------
\* article_exists: os.walk yields output_dir itself, then every directory
\* below it, as path strs; the file names it yields are not looked at
\* ------------------------------------------------------------------------
WalkRoots(out, ds) == {out} \cup {out \o Slash \o d : d \in ds}

\* as if the file names os.walk yields were matched as well
article_exists_files(article_id, out) ==
    \/ \E root \in WalkRoots(out, dirs) : In(article_id, root)
    \/ \E f \in files : In(article_id, SplitLast(f, Slash))

\* as if only the entries of output_dir itself were listed (os.listdir)
article_exists_toplevel(article_id, out) ==
    \E root \in WalkRoots(out, {d \in dirs : ~In(Slash, d)}) : In(article_id, root)

\* as if a directory had to be named exactly by the identifier
article_exists_exact(article_id, out) ==
    \E root \in WalkRoots(out, dirs) : root = out \o Slash \o article_id

article_exists(article_id, out) ==
    \E root \in WalkRoots(out, dirs) : In(article_id, root)

\* ------------------------------------------------------------------------
\* the fetch unit (main_zhihu.ZhihuParser, not part of the sources): on
\* success it leaves a per-item directory named after the item
\* ------------------------------------------------------------------------
ItemDir(article_id) == <<"a">> \o article_id

ItemFile(article_id) == ItemDir(article_id) \o Slash \o <<"i",".","m","d">>

\* the archive the fetch unit downloads into TEMP_DIR ("temporary zip files")
TempZip(article_id) == article_id \o <<".","z","i","p">>

\* ------------------------------------------------------------------------
\* process_urls / process_single_url
\* ------------------------------------------------------------------------
NotFetched == [res |-> "none", err |-> "None"]

\* process_url_file: output_dir = EXTRACTED_DIR / url_file.stem
OutputDir(stem) == EXTRACTED_DIR \o Slash \o stem

BatchState(u, out, t, p) ==
    /\ urls = u
    /\ output_dir = out
    /\ dirs = t.dirs
    /\ files = t.files
    /\ pc = p
    /\ run = 1
    /\ next_task = 1
    /\ inflight = {}
    /\ results = <<>>
    /\ success_count = 0
    /\ failure_count = 0
    /\ skipped_count = 0
    /\ failed_urls = <<>>
    /\ processed = 0
    /\ taken = [i \in 1..Len(u) |-> 0]
    /\ consulted = [i \in 1..Len(u) |-> 0]
    /\ built = [i \in 1..Len(u) |-> 0]
    /\ fetched = [i \in 1..Len(u) |-> NotFetched]
    /\ outcomes = [i \in 1..Len(u) |-> <<>>]
    /\ start_tree = t
    /\ prev = [ran |-> FALSE]

\* process_urls is entered with the list u and the tree t
BatchStart(u, t) == BatchState(u, OutputDir(Stem), t, "pool")

\* no batch is running
BatchOff == BatchState(<<>>, OutputDir(Stem), [dirs |-> {}, files |-> {}], "off")

NormOff == raw = <<>> /\ normalized = None

ExistsOff == q_id = None /\ q_called = FALSE /\ q_result = FALSE

IdOff == id_url = <<>> /\ id_result = "uncalled"

TempOff == temp = {}

MainOff ==
    /\ main_pc = "off"
    /\ cookies_file = None
    /\ url_dir = {}
    /\ cookies = None
    /\ url_files = <<>>
    /\ cur_file = None
    /\ total_success = 0
    /\ total_failure = 0
    /\ total_skipped = 0
    /\ exit_code = -1
    /\ num_read = 0
    /\ clear_log = <<>>

ExtractOff ==
    /\ cat_pc = "off"
    /\ listing = {}
    /\ pending = <<>>
    /\ seen = {}
    /\ merged = <<>>
    /\ reported = <<>>
    /\ cands = <<>>
    /\ written = None

\* as if the task stayed on the queue after being handed out
Take_NoAdvance ==
    /\ pc = "pool"
    /\ next_task <= Len(urls)
    /\ taken[next_task] < 2
    /\ \E w \in Workers :
          /\ Idle(w)
          /\ inflight' = inflight \cup {[i |-> next_task, st |-> "start", w |-> w]}
    /\ taken' = [taken EXCEPT ![next_task] = @ + 1]
    /\ UNCHANGED <<urls, output_dir, dirs, files, pc, run, next_task, results,
                   success_count, failure_count, skipped_count, failed_urls,
                   processed, consulted, built, fetched, outcomes, start_tree, prev>>
    /\ UNCHANGED <<temp, norm_vars, exists_vars, extract_vars, id_vars, main_vars>>

\* as if a worker took a task while it still holds one
Take_Busy ==
    /\ pc = "pool"
    /\ next_task <= Len(urls)
    /\ \E w \in Workers :
          inflight' = inflight \cup {[i |-> next_task, st |-> "start", w |-> w]}
    /\ next_task' = next_task + 1
    /\ taken' = [taken EXCEPT ![next_task] = @ + 1]
    /\ UNCHANGED <<urls, output_dir, dirs, files, pc, run, results, success_count,
                   failure_count, skipped_count, failed_urls, processed, consulted,
                   built, fetched, outcomes, start_tree, prev>>
    /\ UNCHANGED <<temp, norm_vars, exists_vars, extract_vars, id_vars, main_vars>>

\* an idle worker process takes the next task off the pool's task queue
Take ==
    /\ pc = "pool"
    /\ next_task <= Len(urls)
    /\ \E w \in Workers :
          /\ Idle(w)
          /\ inflight' = inflight \cup {[i |-> next_task, st |-> "start", w |-> w]}
    /\ next_task' = next_task + 1
    /\ taken' = [taken EXCEPT ![next_task] = @ + 1]
    /\ UNCHANGED <<urls, output_dir, dirs, files, pc, run, results, success_count,
                   failure_count, skipped_count, failed_urls, processed, consulted,
                   built, fetched, outcomes, start_tree, prev>>
    /\ UNCHANGED <<temp, norm_vars, exists_vars, extract_vars, id_vars, main_vars>>

\* the worker sends process_single_url's return value back
Value(i, success, error) ==
    [exc |-> FALSE, i |-> i, url |-> urls[i], success |-> success, error |-> error]

\* the worker sends back the exception that escaped process_single_url
Escaped(i) ==
    [exc |-> TRUE, i |-> i, url |-> urls[i], success |-> FALSE, error |-> "ctor"]

\* as if an identifier another worker is fetching counted as existing
Check_Locked(t) ==
    /\ pc = "pool"
    /\ t \in inflight
    /\ t.st = "start"
    /\ LET article_id == get_article_id(urls[t.i])
       IN  IF NotId(article_id)
           THEN /\ results' = Append(results, Value(t.i, FALSE, "Invalid URL format"))
                /\ inflight' = inflight \ {t}
                /\ UNCHANGED consulted
           ELSE /\ consulted' = [consulted EXCEPT ![t.i] = @ + 1]
                /\ IF \/ article_exists(article_id, output_dir)
                      \/ \E s \in inflight :
                            s.st = "fetch" /\ get_article_id(urls[s.i]) = article_id
                   THEN /\ results' =
                              Append(results, Value(t.i, TRUE, "Article already exists"))
                        /\ inflight' = inflight \ {t}
                   ELSE /\ inflight' = (inflight \ {t}) \cup {[t EXCEPT !.st = "fetch"]}
                        /\ UNCHANGED results
    /\ UNCHANGED <<urls, output_dir, dirs, files, pc, run, next_task, success_count,
                   failure_count, skipped_count, failed_urls, processed, taken,
                   built, fetched, outcomes, start_tree, prev>>
    /\ UNCHANGED <<temp, norm_vars, exists_vars, extract_vars, id_vars, main_vars>>

\* process_single_url up to the existence check, for the task t of a worker
Check(t) ==
    /\ pc = "pool"
    /\ t \in inflight
    /\ t.st = "start"
    /\ LET article_id == get_article_id(urls[t.i])
       IN  IF NotId(article_id)
           THEN /\ results' = Append(results, Value(t.i, FALSE, "Invalid URL format"))
                /\ inflight' = inflight \ {t}
                /\ UNCHANGED consulted
           ELSE /\ consulted' = [consulted EXCEPT ![t.i] = @ + 1]
                /\ IF article_exists(article_id, output_dir)
                   THEN /\ results' =
                              Append(results, Value(t.i, TRUE, "Article already exists"))
                        /\ inflight' = inflight \ {t}
                   ELSE /\ inflight' = (inflight \ {t}) \cup {[t EXCEPT !.st = "fetch"]}
                        /\ UNCHANGED results
    /\ UNCHANGED <<urls, output_dir, dirs, files, pc, run, next_task, success_count,
                   failure_count, skipped_count, failed_urls, processed, taken,
                   built, fetched, outcomes, start_tree, prev>>
    /\ UNCHANGED <<temp, norm_vars, exists_vars, extract_vars, id_vars, main_vars>>

\* ZhihuParser(...) raises: nothing in process_single_url catches it
CtorRaises(t) ==
    /\ pc = "pool"
    /\ t \in inflight
    /\ t.st = "fetch"
    /\ built' = [built EXCEPT ![t.i] = @ + 1]
    /\ fetched' = [fetched EXCEPT ![t.i] = [res |-> "ctor_raised", err |-> "None"]]
    /\ results' = Append(results, Escaped(t.i))
    /\ inflight' = inflight \ {t}
    /\ UNCHANGED <<urls, output_dir, dirs, files, pc, run, next_task, success_count,
                   failure_count, skipped_count, failed_urls, processed, taken,
                   consulted, outcomes, start_tree, prev>>
    /\ UNCHANGED <<temp, norm_vars, exists_vars, extract_vars, id_vars, main_vars>>

\* parser.judge_type(url) returns: the item is in the output tree
FetchReturns(t) ==
    /\ pc = "pool"
    /\ t \in inflight
    /\ t.st = "fetch"
    /\ built' = [built EXCEPT ![t.i] = @ + 1]
    /\ fetched' = [fetched EXCEPT ![t.i] = [res |-> "returned", err |-> "None"]]
    /\ dirs' = dirs \cup {ItemDir(get_article_id(urls[t.i]))}
    /\ files' = files \cup {ItemFile(get_article_id(urls[t.i]))}
    /\ temp' = temp \cup {TempZip(get_article_id(urls[t.i]))}
    /\ results' = Append(results, Value(t.i, TRUE, "None"))
    /\ inflight' = inflight \ {t}
    /\ UNCHANGED <<urls, output_dir, pc, run, next_task, success_count,
                   failure_count, skipped_count, failed_urls, processed, taken,
                   consulted, outcomes, start_tree, prev>>
    /\ UNCHANGED <<norm_vars, exists_vars, extract_vars, id_vars, main_vars>>

\* parser.judge_type(url) returns a value that describes a failure: the
\* value is dropped, the item counts as downloaded
FetchReturnsFailure(t) ==
    /\ pc = "pool"
    /\ t \in inflight
    /\ t.st = "fetch"
    /\ built' = [built EXCEPT ![t.i] = @ + 1]
    /\ fetched' = [fetched EXCEPT ![t.i] = [res |-> "returned_failure", err |-> "None"]]
    /\ results' = Append(results, Value(t.i, TRUE, "None"))
    /\ inflight' = inflight \ {t}
    /\ UNCHANGED <<urls, output_dir, dirs, files, pc, run, next_task, success_count,
                   failure_count, skipped_count, failed_urls, processed, taken,
                   consulted, outcomes, start_tree, prev>>
    /\ UNCHANGED <<temp, norm_vars, exists_vars, extract_vars, id_vars, main_vars>>

\* as if judge_type were called outside the try
FetchRaises_Uncaught(t) ==
    /\ pc = "pool"
    /\ t \in inflight
    /\ t.st = "fetch"
    /\ \E e \in FetchErrors :
          /\ results' = Append(results, Escaped(t.i))
          /\ fetched' = [fetched EXCEPT ![t.i] = [res |-> "raised", err |-> e]]
    /\ built' = [built EXCEPT ![t.i] = @ + 1]
    /\ inflight' = inflight \ {t}
    /\ UNCHANGED <<urls, output_dir, dirs, files, pc, run, next_task, success_count,
                   failure_count, skipped_count, failed_urls, processed, taken,
                   consulted, outcomes, start_tree, prev>>
    /\ UNCHANGED <<temp, norm_vars, exists_vars, extract_vars, id_vars, main_vars>>

\* parser.judge_type(url) raises e: caught, str(e) is the error
FetchRaises(t) ==
    /\ pc = "pool"
    /\ t \in inflight
    /\ t.st = "fetch"
    /\ \E e \in FetchErrors :
          /\ results' = Append(results, Value(t.i, FALSE, e))
          /\ fetched' = [fetched EXCEPT ![t.i] = [res |-> "raised", err |-> e]]
    /\ built' = [built EXCEPT ![t.i] = @ + 1]
    /\ inflight' = inflight \ {t}
    /\ UNCHANGED <<urls, output_dir, dirs, files, pc, run, next_task, success_count,
                   failure_count, skipped_count, failed_urls, processed, taken,
                   consulted, outcomes, start_tree, prev>>
    /\ UNCHANGED <<temp, norm_vars, exists_vars, extract_vars, id_vars, main_vars>>

\* as if the loop body did not tell a skip from a download
Kind_NoSkip(r) == IF r.success THEN "Success" ELSE "Failed"

\* the status the loop body shows for a result
Kind(r) ==
    IF r.success
    THEN IF r.error = "Article already exists" THEN "Skipped" ELSE "Success"
    ELSE "Failed"

\* as if the k-th result were paired with the k-th URL of the list
Consume_SubmissionOrder ==
    /\ pc = "pool"
    /\ results # <<>>
    /\ LET r == Head(results)
       IN  IF r.exc
           THEN \* next(tasks) raises; leaving `with Pool` terminates the workers
                /\ pc' = "aborted"
                /\ inflight' = {}
                /\ results' = <<>>
                /\ UNCHANGED <<success_count, failure_count, skipped_count,
                               failed_urls, processed, outcomes>>
           ELSE /\ success_count' = success_count + (IF Kind(r) = "Success" THEN 1 ELSE 0)
                /\ skipped_count' = skipped_count + (IF Kind(r) = "Skipped" THEN 1 ELSE 0)
                /\ failure_count' = failure_count + (IF Kind(r) = "Failed" THEN 1 ELSE 0)
                /\ failed_urls' = IF Kind(r) = "Failed"
                                  THEN Append(failed_urls, <<urls[processed + 1], r.error>>)
                                  ELSE failed_urls
                /\ processed' = processed + 1
                /\ outcomes' = [outcomes EXCEPT ![r.i] =
                                  Append(@, [kind |-> Kind(r), reason |-> r.error])]
                /\ results' = Tail(results)
                /\ UNCHANGED <<pc, inflight>>
    /\ UNCHANGED <<urls, output_dir, dirs, files, run, next_task, taken, consulted,
                   built, fetched, start_tree, prev>>
    /\ UNCHANGED <<temp, norm_vars, exists_vars, extract_vars, id_vars, main_vars>>

\* one turn of `for url, success, error in tasks`
Consume ==
    /\ pc = "pool"
    /\ results # <<>>
    /\ LET r == Head(results)
       IN  IF r.exc
           THEN \* next(tasks) raises; leaving `with Pool` terminates the workers
                /\ pc' = "aborted"
                /\ inflight' = {}
                /\ results' = <<>>
                /\ UNCHANGED <<success_count, failure_count, skipped_count,
                               failed_urls, processed, outcomes>>
           ELSE /\ success_count' = success_count + (IF Kind(r) = "Success" THEN 1 ELSE 0)
                /\ skipped_count' = skipped_count + (IF Kind(r) = "Skipped" THEN 1 ELSE 0)
                /\ failure_count' = failure_count + (IF Kind(r) = "Failed" THEN 1 ELSE 0)
                /\ failed_urls' = IF Kind(r) = "Failed"
                                  THEN Append(failed_urls, <<r.url, r.error>>)
                                  ELSE failed_urls
                /\ processed' = processed + 1
                /\ outcomes' = [outcomes EXCEPT ![r.i] =
                                  Append(@, [kind |-> Kind(r), reason |-> r.error])]
                /\ results' = Tail(results)
                /\ UNCHANGED <<pc, inflight>>
    /\ UNCHANGED <<urls, output_dir, dirs, files, run, next_task, taken, consulted,
                   built, fetched, start_tree, prev>>
    /\ UNCHANGED <<temp, norm_vars, exists_vars, extract_vars, id_vars, main_vars>>

\* as if process_urls returned once every task was handed out
Return_Early ==
    /\ pc = "pool"
    /\ next_task > Len(urls)
    /\ pc' = "returned"
    /\ UNCHANGED <<urls, output_dir, dirs, files, run, next_task, inflight, results,
                   success_count, failure_count, skipped_count, failed_urls,
                   processed, taken, consulted, built, fetched, outcomes,
                   start_tree, prev>>
    /\ UNCHANGED <<temp, norm_vars, exists_vars, extract_vars, id_vars, main_vars>>

\* the iterator is exhausted after len(urls) results: process_urls returns
Return ==
    /\ pc = "pool"
    /\ processed = Len(urls)
    /\ pc' = "returned"
    /\ UNCHANGED <<urls, output_dir, dirs, files, run, next_task, inflight, results,
                   success_count, failure_count, skipped_count, failed_urls,
                   processed, taken, consulted, built, fetched, outcomes,
                   start_tree, prev>>
    /\ UNCHANGED <<temp, norm_vars, exists_vars, extract_vars, id_vars, main_vars>>

\* the batch is run again over the same list and the tree the first run left
Rerun ==
    /\ pc = "returned"
    /\ run = 1
    /\ Len(urls) <= MaxRerun
    /\ run' = 2
    /\ pc' = "pool"
    /\ next_task' = 1
    /\ success_count' = 0
    /\ failure_count' = 0
    /\ skipped_count' = 0
    /\ failed_urls' = <<>>
    /\ processed' = 0
    /\ taken' = [i \in Idx |-> 0]
    /\ consulted' = [i \in Idx |-> 0]
    /\ built' = [i \in Idx |-> 0]
    /\ fetched' = [i \in Idx |-> NotFetched]
    /\ outcomes' = [i \in Idx |-> <<>>]
    /\ start_tree' = [dirs |-> dirs, files |-> files]
    /\ prev' = [ran |-> TRUE, outcomes |-> outcomes, fetched |-> fetched]
    /\ UNCHANGED <<urls, output_dir, dirs, files, inflight, results>>
    /\ UNCHANGED <<temp, norm_vars, exists_vars, extract_vars, id_vars, main_vars>>

Tasks == {[i |-> i, st |-> st, w |-> w] : i \in Idx, st \in {"start", "fetch"}, w \in Workers}

Init ==
    /\ \E u \in BoundedSeq(URLS, MaxUrls) : \E t \in Trees : BatchStart(u, t)
    /\ TempOff
    /\ NormOff
    /\ ExistsOff
    /\ ExtractOff
    /\ IdOff
    /\ MainOff

Next ==
    \/ Take
    \/ \E t \in Tasks : Check(t)
    \/ \E t \in Tasks : CtorRaises(t)
    \/ \E t \in Tasks : FetchReturns(t)
    \/ \E t \in Tasks : FetchReturnsFailure(t)
    \/ \E t \in Tasks : FetchRaises(t)
    \/ Consume
    \/ Return
    \/ Rerun

Spec == Init /\ [][Next]_vars

\* ------------------------------------------------------------------------
\* pages_to_urls.py: normalize
\* ------------------------------------------------------------------------
\* longest raw string handed to normalize
MaxRaw == 4

S_https == <<"h","t","t","p","s",":">>

S_rel == <<"/","/">>

\* as if the prefix were tested before the strip
normalize_late_strip(r) == IF StartsWith(r, S_rel) THEN S_https \o Strip(r) ELSE Strip(r)

normalize(r) == IF StartsWith(Strip(r), S_rel) THEN S_https \o Strip(r) ELSE Strip(r)

\* the characters of the raw strings
RawChars == {" ", "\n", "/", "a"}

NormInit ==
    /\ BatchOff
    /\ TempOff
    /\ ExistsOff
    /\ ExtractOff
    /\ IdOff
    /\ MainOff
    /\ raw \in BoundedSeq(RawChars, MaxRaw)
    /\ normalized = None

Normalize ==
    /\ normalized = None
    /\ normalized' = normalize(raw)
    /\ UNCHANGED <<raw, batch_vars, temp, exists_vars, extract_vars, id_vars, main_vars>>

SpecNormalize == NormInit /\ [][Normalize]_vars

\* ------------------------------------------------------------------------
\* batch_download.py: article_exists on its own
\* ------------------------------------------------------------------------
\* identifiers get_article_id can return
ExistsIds == {<<"1","2">>, <<"1","2","3">>, <<"c">>, <<"m","d">>}

\* stems of URL files
ExistsStems == {<<"c">>, <<"q","1","2">>}

D_a123 == <<"a","1","2","3">>
F_x_12md == <<"x","/","1","2",".","m","d">>
F_3 == <<"3">>

\* directories and files below the output directory
ExistsTrees ==
    { [dirs |-> ds, files |-> fs] :
        ds \in {{}, {D_x}, {D_x, D_x_12}, {D_a123}, {D_x, D_a123}},
        fs \in {{}, {F_12md}, {F_3}, {F_12md, F_3}} }
    \cup {[dirs |-> {D_x}, files |-> {F_x_12md}]}

ExistsInit ==
    /\ \E stem \in ExistsStems : \E t \in ExistsTrees :
          BatchState(<<>>, OutputDir(stem), t, "off")
    /\ TempOff
    /\ NormOff
    /\ ExtractOff
    /\ IdOff
    /\ MainOff
    /\ q_id \in ExistsIds
    /\ q_called = FALSE
    /\ q_result = FALSE

CallExists ==
    /\ ~q_called
    /\ q_called' = TRUE
    /\ q_result' = article_exists(q_id, output_dir)
    /\ UNCHANGED <<q_id, batch_vars, temp, norm_vars, extract_vars, id_vars, main_vars>>

SpecExists == ExistsInit /\ [][CallExists]_vars

\* ------------------------------------------------------------------------
\* pages_to_urls.py: extract_urls_from_soup and the category loop of main
\* ------------------------------------------------------------------------
\* most nodes of a document
MaxTags == 3

\* an attribute the tag does not have
Absent == "None"

\* a parsed node; strings and comments have the name "#text"
Node(name, itemprop, content, target, ename, href) ==
    [name |-> name, itemprop |-> itemprop, content |-> content,
     target |-> target, ename |-> ename, href |-> href]

R_rel_a == <<"/","/","a">>
R_abs_a == S_https \o R_rel_a
R_rel_b == <<" ","/","/","b">>

\* <meta itemprop="url" content="//a">
MetaUrl == Node("meta", "url", R_rel_a, Absent, Absent, <<>>)

\* <meta itemprop="datePublished" content="...">
MetaDate == Node("meta", "datePublished", <<"d">>, Absent, Absent, <<>>)

\* a string between two tags
Text == Node("#text", Absent, <<>>, Absent, Absent, <<>>)

\* <a target="_blank" data-za-detail-view-element_name="Title" href="https://a">
TitleA == Node("a", Absent, <<>>, "_blank", "Title", R_abs_a)

\* <a target="_blank" data-za-detail-view-element_name="Title" href=" //b">
TitleB == Node("a", Absent, <<>>, "_blank", "Title", R_rel_b)

Nodes == {MetaUrl, MetaDate, Text, TitleA, TitleB}

\* the documents: the children of one parent, in document order
Soups == BoundedSeq(Nodes, MaxTags)

\* tag.next_sibling past the strings and comments: its index, 0 for None
RECURSIVE NextTag(_, _)
NextTag(soup, k) ==
    IF k + 1 > Len(soup) THEN 0
    ELSE IF soup[k + 1].name = "#text" THEN NextTag(soup, k + 1)
    ELSE k + 1

\* the URL the loop body obtains from the k-th node, None when it has none
TagUrl(soup, k) ==
    LET tag == soup[k]
    IN  IF tag.name = "meta" /\ tag.itemprop = "url"
        THEN LET r == Strip(tag.content)
                 sib == NextTag(soup, k)
             IN  IF /\ r # <<>>
                    /\ sib # 0
                    /\ soup[sib].name = "meta"
                    /\ soup[sib].itemprop \in {"datePublished", "dateModified"}
                 THEN normalize(r)
                 ELSE None
        ELSE IF tag.name = "a" /\ tag.target = "_blank" /\ tag.ename = "Title"
        THEN LET r == Strip(tag.href)
             IN  IF r # <<>> THEN normalize(r) ELSE None
        ELSE None

\* the loop over soup.find_all(True) from the k-th node on
RECURSIVE ExtractFrom(_, _, _, _)
ExtractFrom(soup, k, sn, out) ==
    IF k > Len(soup) THEN [out |-> out, seen |-> sn]
    ELSE LET url == TagUrl(soup, k)
         IN  IF url # None /\ url \notin sn
             THEN ExtractFrom(soup, k + 1, sn \cup {url}, Append(out, url))
             ELSE ExtractFrom(soup, k + 1, sn, out)

\* as if every document started from an empty seen set
extract_fresh_seen(soup, sn) ==
    [out |-> ExtractFrom(soup, 1, {}, <<>>).out,
     seen |-> sn \cup ExtractFrom(soup, 1, {}, <<>>).seen]

\* returns out and leaves the additions in seen
extract_urls_from_soup(soup, sn) == ExtractFrom(soup, 1, sn, <<>>)

\* the URLs that qualify in a document, in document order
RECURSIVE Qualifying(_, _)
Qualifying(soup, k) ==
    IF k > Len(soup) THEN <<>>
    ELSE (IF TagUrl(soup, k) # None THEN <<TagUrl(soup, k)>> ELSE <<>>)
         \o Qualifying(soup, k + 1)

\* code points of the characters of the file names
Code ==
    [c \in {".", "A", "H", "L", "M", "T", "a", "b", "h", "l", "m", "t", "x"} |->
       CASE c = "." -> 46 [] c = "A" -> 65 [] c = "H" -> 72 [] c = "L" -> 76
         [] c = "M" -> 77 [] c = "T" -> 84 [] c = "a" -> 97 [] c = "b" -> 98
         [] c = "h" -> 104 [] c = "l" -> 108 [] c = "m" -> 109 [] c = "t" -> 116
         [] c = "x" -> 120]

\* str < str
RECURSIVE StrLess(_, _)
StrLess(s, t) ==
    IF t = <<>> THEN FALSE
    ELSE IF s = <<>> THEN TRUE
    ELSE IF Head(s) = Head(t) THEN StrLess(Tail(s), Tail(t))
    ELSE Code[Head(s)] < Code[Head(t)]

\* sorted(S)
RECURSIVE Sorted(_)
Sorted(S) ==
    IF S = {} THEN <<>>
    ELSE LET m == CHOOSE x \in S : \A y \in S \ {x} : StrLess(x, y)
         IN  <<m>> \o Sorted(S \ {m})

\* c.lower()
LowerChar(c) ==
    CASE c = "A" -> "a" [] c = "H" -> "h" [] c = "L" -> "l" [] c = "M" -> "m"
      [] c = "T" -> "t" [] OTHER -> c

\* s.lower()
Lower(s) == [k \in 1..Len(s) |-> LowerChar(s[k])]

S_html == <<".","h","t","m","l">>

N_A_HTML == <<"A",".","H","T","M","L">>
N_b_html == <<"b",".","h","t","m","l">>
N_a_txt == <<"a",".","t","x","t">>

\* the names a category directory can hold
FileNames == {N_A_HTML, N_b_html, N_a_txt}

CategoryInit ==
    /\ BatchOff
    /\ TempOff
    /\ NormOff
    /\ ExistsOff
    /\ IdOff
    /\ MainOff
    /\ cat_pc = "listed"
    /\ listing \in SUBSET FileNames
    /\ pending = <<>>
    /\ seen = {}
    /\ merged = <<>>
    /\ reported = <<>>
    /\ cands = <<>>
    /\ written = None

\* seen = set(); merged = []; the sorted .html names of the category
OpenCategory ==
    /\ cat_pc = "listed"
    /\ cat_pc' = "files"
    /\ seen' = {}
    /\ merged' = <<>>
    /\ pending' = Sorted({f \in listing : EndsWith(Lower(f), S_html)})
    /\ UNCHANGED <<listing, reported, cands, written>>
    /\ UNCHANGED <<batch_vars, temp, norm_vars, exists_vars, id_vars, main_vars>>

\* one turn of the loop over the files: the file parses to some document
ProcessFile ==
    /\ cat_pc = "files"
    /\ pending # <<>>
    /\ \E soup \in Soups :
          LET result == extract_urls_from_soup(soup, seen)
          IN  /\ seen' = result.seen
              /\ merged' = merged \o result.out
              /\ reported' = Append(reported, Len(result.out))
              /\ cands' = Append(cands, [fn |-> Head(pending),
                                         urls |-> Qualifying(soup, 1)])
    /\ pending' = Tail(pending)
    /\ UNCHANGED <<cat_pc, listing, written>>
    /\ UNCHANGED <<batch_vars, temp, norm_vars, exists_vars, id_vars, main_vars>>

\* <category>.txt is written, one URL of merged per line
WriteOut ==
    /\ cat_pc = "files"
    /\ pending = <<>>
    /\ written' = merged
    /\ cat_pc' = "done"
    /\ UNCHANGED <<listing, pending, seen, merged, reported, cands>>
    /\ UNCHANGED <<batch_vars, temp, norm_vars, exists_vars, id_vars, main_vars>>

CategoryNext == OpenCategory \/ ProcessFile \/ WriteOut

SpecCategory == CategoryInit /\ [][CategoryNext]_vars

\* ------------------------------------------------------------------------
\* batch_download.py: get_article_id on its own
\* ------------------------------------------------------------------------
\* most path segments of a URL
MaxSegs == 4

H_zhuanlan == <<"z","h","u","a","n","l","a","n",".","z","h","i","h","u",".","c","o","m">>
H_www == <<"w","w","w",".","z","h","i","h","u",".","c","o","m">>

\* the hosts of the URLs
IdHosts == {H_zhuanlan, H_www}

\* the path segments of the URLs: the words get_article_id looks for, a word
\* that contains one of them, and an identifier
IdSegments == {<<"p">>, S_question, S_answer, S_zvideo, S_column, S_column \o <<"s">>, <<"1","2">>}

\* "/" + "/".join(path)
RECURSIVE JoinPath(_)
JoinPath(path) == IF path = <<>> THEN <<>> ELSE Slash \o Head(path) \o JoinPath(Tail(path))

\* the lines of a URL file
IdUrls == {Https \o h \o JoinPath(path) : h \in IdHosts, path \in BoundedSeq(IdSegments, MaxSegs)}

IdInit ==
    /\ BatchOff
    /\ TempOff
    /\ NormOff
    /\ ExistsOff
    /\ ExtractOff
    /\ MainOff
    /\ id_url \in IdUrls
    /\ id_result = "uncalled"

\* article_id = get_article_id(url)
CallId ==
    /\ id_result = "uncalled"
    /\ id_result' = get_article_id(id_url)
    /\ UNCHANGED <<id_url, batch_vars, temp, norm_vars, exists_vars, extract_vars, main_vars>>

SpecId == IdInit /\ [][CallId]_vars

\* ------------------------------------------------------------------------
\* batch_download.py: main
\* ------------------------------------------------------------------------
\* most *.txt files in URLS_DIR
MaxFiles == 2

\* what COOKIES_FILE can hold: missing, empty, blank, a token
CookieFiles == {None, <<>>, <<" ", "\n">>, <<" ", "t", "\n">>}

S_txt == <<".","t","x","t">>

Newline == <<"\n">>

\* the entries URLS_DIR can hold: [name, lines, tree], tree being what lies
\* below EXTRACTED_DIR / stem
UrlDirEntries ==
    { [name |-> <<"c">> \o S_txt,
       lines |-> <<<<" ">> \o U_A \o Newline, Newline, U_X \o Newline, U_B>>,
       tree |-> [dirs |-> {D_x, D_x_12}, files |-> {}]],
      [name |-> <<"d">> \o S_txt,
       lines |-> <<U_A \o Newline, U_A \o Newline>>,
       tree |-> [dirs |-> {}, files |-> {F_12md}]],
      [name |-> <<"e">> \o S_txt,
       lines |-> <<Newline>>,
       tree |-> [dirs |-> {}, files |-> {}]],
      [name |-> <<"n",".","m","d">>,
       lines |-> <<U_A>>,
       tree |-> [dirs |-> {}, files |-> {}]] }

\* URLS_DIR.glob("*.txt")
Glob(entries) == {f \in entries : EndsWith(f.name, S_txt)}

\* Path.stem: the name without its last suffix
StemOf(name) ==
    LET dots == {k \in 2..Len(name) : name[k] = "."}
    IN  IF dots = {} THEN name
        ELSE SubSeq(name, 1, (CHOOSE k \in dots : \A j \in dots : j <= k) - 1)

\* [line.strip() for line in f if line.strip()]
RECURSIVE read_urls_from_file(_)
read_urls_from_file(lines) ==
    IF lines = <<>> THEN <<>>
    ELSE (IF Strip(Head(lines)) # <<>> THEN <<Strip(Head(lines))>> ELSE <<>>)
         \o read_urls_from_file(Tail(lines))

\* list(...) of a set: the order is the file system's
Orders(S) ==
    {s \in [1..Cardinality(S) -> S] : \A j, k \in 1..Cardinality(S) : j # k => s[j] # s[k]}

\* as if the directory were removed only when it does not exist
cleanup_temp_files_inverted(t) == t

\* cleanup_temp_files: TEMP_DIR exists (setup_directories made it), it is
\* removed with what it holds and made again
cleanup_temp_files(t) == {}

\* what the run had done when cleanup_temp_files was called
ClearEntry ==
    [read |-> num_read,
     aggregated |-> total_success + total_failure + total_skipped,
     inflight |-> Cardinality(inflight),
     pool |-> pc = "pool",
     removed |-> temp]

MainInit ==
    /\ BatchOff
    /\ NormOff
    /\ ExistsOff
    /\ ExtractOff
    /\ IdOff
    /\ temp \in {{}, {TempZip(<<"0">>)}}
    /\ main_pc = "start"
    /\ cookies_file \in CookieFiles
    /\ url_dir \in {S \in SUBSET UrlDirEntries : Cardinality(Glob(S)) <= MaxFiles}
    /\ cookies = None
    /\ url_files = <<>>
    /\ cur_file = None
    /\ total_success = 0
    /\ total_failure = 0
    /\ total_skipped = 0
    /\ exit_code = -1
    /\ num_read = 0
    /\ clear_log = <<>>

\* setup_directories(); cleanup_temp_files()
SetupAndCleanup ==
    /\ main_pc = "start"
    /\ temp' = cleanup_temp_files(temp)
    /\ clear_log' = Append(clear_log, ClearEntry)
    /\ main_pc' = "cookies"
    /\ UNCHANGED <<cookies_file, url_dir, cookies, url_files, cur_file, total_success,
                   total_failure, total_skipped, exit_code, num_read>>
    /\ UNCHANGED <<batch_vars, norm_vars, exists_vars, extract_vars, id_vars>>

\* as if only a missing file were fatal
ReadCookies_NoEmptyCheck ==
    /\ main_pc = "cookies"
    /\ IF cookies_file = None
       THEN /\ main_pc' = "exit"
            /\ exit_code' = 1
            /\ UNCHANGED cookies
       ELSE /\ cookies' = Strip(cookies_file)
            /\ main_pc' = "glob"
            /\ UNCHANGED exit_code
    /\ UNCHANGED <<cookies_file, url_dir, url_files, cur_file, total_success,
                   total_failure, total_skipped, num_read, clear_log>>
    /\ UNCHANGED <<batch_vars, temp, norm_vars, exists_vars, extract_vars, id_vars>>

\* cookies = read_cookies_from_file(COOKIES_FILE)
ReadCookies ==
    /\ main_pc = "cookies"
    /\ IF cookies_file = None \/ Strip(cookies_file) = <<>>
       THEN /\ main_pc' = "exit"
            /\ exit_code' = 1
            /\ UNCHANGED cookies
       ELSE /\ cookies' = Strip(cookies_file)
            /\ main_pc' = "glob"
            /\ UNCHANGED exit_code
    /\ UNCHANGED <<cookies_file, url_dir, url_files, cur_file, total_success,
                   total_failure, total_skipped, num_read, clear_log>>
    /\ UNCHANGED <<batch_vars, temp, norm_vars, exists_vars, extract_vars, id_vars>>

\* url_files = get_url_files(); sys.exit(1) when there is none
GetUrlFiles ==
    /\ main_pc = "glob"
    /\ \E order \in Orders(Glob(url_dir)) : url_files' = order
    /\ IF Glob(url_dir) = {}
       THEN main_pc' = "exit" /\ exit_code' = 1
       ELSE main_pc' = "loop" /\ UNCHANGED exit_code
    /\ UNCHANGED <<cookies_file, url_dir, cookies, cur_file, total_success,
                   total_failure, total_skipped, num_read, clear_log>>
    /\ UNCHANGED <<batch_vars, temp, norm_vars, exists_vars, extract_vars, id_vars>>

\* process_url_file up to the call of process_urls, which opens its pool
StartFile ==
    /\ main_pc = "loop"
    /\ url_files # <<>>
    /\ LET f == Head(url_files)
           u == read_urls_from_file(f.lines)
       IN  /\ cur_file' = f
           /\ urls' = u
           /\ output_dir' = OutputDir(StemOf(f.name))
           /\ dirs' = f.tree.dirs
           /\ files' = f.tree.files
           /\ start_tree' = f.tree
           /\ taken' = [i \in 1..Len(u) |-> 0]
           /\ consulted' = [i \in 1..Len(u) |-> 0]
           /\ built' = [i \in 1..Len(u) |-> 0]
           /\ fetched' = [i \in 1..Len(u) |-> NotFetched]
           /\ outcomes' = [i \in 1..Len(u) |-> <<>>]
    /\ url_files' = Tail(url_files)
    /\ num_read' = num_read + 1
    /\ main_pc' = "file"
    /\ pc' = "pool"
    /\ run' = 1
    /\ next_task' = 1
    /\ success_count' = 0
    /\ failure_count' = 0
    /\ skipped_count' = 0
    /\ failed_urls' = <<>>
    /\ processed' = 0
    /\ prev' = [ran |-> FALSE]
    /\ UNCHANGED <<inflight, results>>
    /\ UNCHANGED <<cookies_file, url_dir, cookies, total_success, total_failure,
                   total_skipped, exit_code, clear_log>>
    /\ UNCHANGED <<temp, norm_vars, exists_vars, extract_vars, id_vars>>

\* process_urls returned: the summary is printed, the totals are added up
FileDone ==
    /\ main_pc = "file"
    /\ pc = "returned"
    /\ total_success' = total_success + success_count
    /\ total_failure' = total_failure + failure_count
    /\ total_skipped' = total_skipped + skipped_count
    /\ cur_file' = None
    /\ main_pc' = "loop"
    /\ UNCHANGED <<cookies_file, url_dir, cookies, url_files, exit_code, num_read,
                   clear_log>>
    /\ UNCHANGED <<batch_vars, temp, norm_vars, exists_vars, extract_vars, id_vars>>

\* process_urls raised: nothing in process_url_file or main catches it
MainRaises ==
    /\ main_pc = "file"
    /\ pc = "aborted"
    /\ main_pc' = "exit"
    /\ exit_code' = 1
    /\ UNCHANGED <<cookies_file, url_dir, cookies, url_files, cur_file, total_success,
                   total_failure, total_skipped, num_read, clear_log>>
    /\ UNCHANGED <<batch_vars, temp, norm_vars, exists_vars, extract_vars, id_vars>>

\* after the loop: the overall summary, cleanup_temp_files(), the end of main
FinalCleanup ==
    /\ main_pc = "loop"
    /\ url_files = <<>>
    /\ temp' = cleanup_temp_files(temp)
    /\ clear_log' = Append(clear_log, ClearEntry)
    /\ main_pc' = "done"
    /\ exit_code' = 0
    /\ UNCHANGED <<cookies_file, url_dir, cookies, url_files, cur_file, total_success,
                   total_failure, total_skipped, num_read>>
    /\ UNCHANGED <<batch_vars, norm_vars, exists_vars, extract_vars, id_vars>>

MainNext ==
    \/ SetupAndCleanup
    \/ ReadCookies
    \/ GetUrlFiles
    \/ StartFile
    \/ Take
    \/ \E t \in Tasks : Check(t)
    \/ \E t \in Tasks : CtorRaises(t)
    \/ \E t \in Tasks : FetchReturns(t)
    \/ \E t \in Tasks : FetchReturnsFailure(t)
    \/ \E t \in Tasks : FetchRaises(t)
    \/ Consume
    \/ Return
    \/ FileDone
    \/ MainRaises
    \/ FinalCleanup

SpecMain == MainInit /\ [][MainNext]_vars

\* ========================================================================
\* Properties
\* ========================================================================
\* the pieces of a path between its separators
RECURSIVE Pieces(_)
Pieces(path) ==
    IF ~In(Slash, path) THEN {path}
    ELSE {SplitFirst(path, Slash)}
         \cup Pieces(SubSeq(path, Find(path, Slash) + 2, Len(path)))

\* the last piece of a path
BaseName(path) == SplitLast(path, Slash)

\* the identifier occurs in a piece of the output directory's own path or in
\* the name of a directory below it
InDirPath(article_id, out, ds) ==
    \/ \E c \in Pieces(out) : In(article_id, c)
    \/ \E d \in ds : In(article_id, BaseName(d))

\* the identifier occurs in the name of a directory or of a file below the
\* output directory
InSubPath(article_id, ds, fs) == \E p \in ds \cup fs : In(article_id, BaseName(p))

\* the identifier of every URL of the lists
IdOf == [u \in URLS |-> get_article_id(u)]

Id(i) == IdOf[urls[i]]

\* no identifier can be extracted from entry i: absent or empty
NoIdentifier(i) == Id(i) = None \/ Len(Id(i)) = 0

\* entry i resolves to an identifier the tree held when the run started
PresentAtStart(i) ==
    /\ ~NoIdentifier(i)
    /\ In(Id(i), output_dir) \/ \E d \in start_tree.dirs : In(Id(i), d)

Range(f) == {f[k] : k \in DOMAIN f}

InvalidFailure(i) == <<urls[i], "Invalid URL format">>

InBatch == pc \in {"pool", "returned", "aborted"}

\* C1: every worklist entry is handed to a worker at most once, is checked and
\* fetched at most once and yields at most one outcome; when process_urls
\* returns, every entry was handed out once and has exactly one outcome
\* (Success, Skipped or Failed), and the three counts add up to len(urls).
C1_ExactlyOnce ==
    InBatch =>
      /\ \A i \in Idx :
            /\ taken[i] <= 1
            /\ consulted[i] <= 1
            /\ built[i] <= 1
            /\ Len(outcomes[i]) <= taken[i]
      /\ pc = "returned" =>
            /\ \A i \in Idx :
                  /\ taken[i] = 1
                  /\ Len(outcomes[i]) = 1
                  /\ outcomes[i][1].kind \in {"Success", "Skipped", "Failed"}
            /\ success_count + failure_count + skipped_count = Len(urls)

\* a batch returned whose results were consumed against the order of the list
C1_Witness ==
    /\ pc = "returned"
    /\ success_count >= 1
    /\ \E i, j \in Idx :
          /\ i < j
          /\ urls[i] # urls[j]
          /\ failed_urls = <<InvalidFailure(j), InvalidFailure(i)>>

\* the only per-item error of the batch is a raise of the fetch call for i
OnlyFetchFailure(i) ==
    /\ fetched[i].res = "raised"
    /\ \A j \in Idx \ {i} :
          /\ fetched[j].res \in {"none", "returned"}
          /\ ~NoIdentifier(j)

\* C2: a raise of the fetch call never ends the batch (the pool is given up
\* only after an exception escaped a worker, which a caught raise never
\* does); when the fetch call raised for exactly one item i and nothing else
\* failed, the batch returns failure_count 1, the failure list is the one
\* entry (url of i, message of the raise), and every other item has its own
\* Success or Skipped outcome.
C2_FaultIsolation ==
    InBatch =>
      /\ pc = "aborted" => \E j \in Idx : fetched[j].res = "ctor_raised"
      /\ \A i \in Idx :
            (pc = "returned" /\ OnlyFetchFailure(i)) =>
               /\ failure_count = 1
               /\ failed_urls = << <<urls[i], fetched[i].err>> >>
               /\ \A j \in Idx \ {i} :
                     /\ Len(outcomes[j]) = 1
                     /\ outcomes[j][1].kind \in {"Success", "Skipped"}

\* a batch of several items returned in which the fetch call raised for one
C2_Witness ==
    /\ pc = "returned"
    /\ Len(urls) >= 2
    /\ \E i \in Idx : OnlyFetchFailure(i) /\ success_count >= 1

\* every entry is present at the start, or unrecognized, or was fetched with
\* success
ThreeClasses ==
    \A i \in Idx : NoIdentifier(i) \/ PresentAtStart(i) \/ fetched[i].res = "returned"

NumInvalid == Cardinality({i \in Idx : NoIdentifier(i)})

NumPresent == Cardinality({i \in Idx : PresentAtStart(i)})

\* every failure-list entry is an unrecognized entry with the reason
\* "Invalid URL format", and each unrecognized entry is listed once
FailureListIsInvalid ==
    /\ Len(failed_urls) = NumInvalid
    /\ \A k \in 1..Len(failed_urls) :
          \E i \in Idx : NoIdentifier(i) /\ failed_urls[k] = InvalidFailure(i)
    /\ \A i \in Idx :
          NoIdentifier(i) =>
             Cardinality({k \in 1..Len(failed_urls) : failed_urls[k][1] = urls[i]})
               = Cardinality({j \in Idx : urls[j] = urls[i]})

\* C3: when every entry of the worklist resolves to an identifier present in
\* the output tree at the start, or has no recognized shape, or succeeds via
\* the fetch unit, the returned skipped is the number of present entries,
\* failure the number of unrecognized entries, success the number of the
\* rest, and the failure list holds exactly the unrecognized entries, each
\* with "Invalid URL format".
C3_Classification ==
    (pc = "returned" /\ ThreeClasses) =>
       /\ skipped_count = NumPresent
       /\ failure_count = NumInvalid
       /\ success_count = Len(urls) - NumPresent - NumInvalid
       /\ FailureListIsInvalid

\* [A, B, C]: A present, B unrecognized, C fetched: one of each
C3_Witness ==
    /\ pc = "returned"
    /\ ThreeClasses
    /\ Len(urls) = 3
    /\ success_count = 1
    /\ skipped_count = 1
    /\ failure_count = 1
    /\ Len(failed_urls) = 1

SkippedOnly(i) ==
    /\ built[i] = 0
    /\ fetched[i].res = "none"
    /\ \A k \in 1..Len(outcomes[i]) :
          outcomes[i][k] = [kind |-> "Skipped", reason |-> "Article already exists"]

\* C4 as claimed: an entry whose identifier occurs in the name of a directory
\* or of a file below the output directory is Skipped, and no fetch unit is
\* built for it.
C4_Claimed ==
    InBatch =>
      \A i \in Idx :
         (~NoIdentifier(i) /\ InSubPath(Id(i), start_tree.dirs, start_tree.files))
           => SkippedOnly(i)

\* C4: an entry whose identifier occurs in the path of the output directory
\* or in the name of a directory below it (at any depth) when the run starts
\* is Skipped with "Article already exists", and no fetch unit is built for
\* it; an entry is Skipped only when a directory path contains its
\* identifier, a file name alone never causes a skip.
C4_SkipsPresent ==
    InBatch =>
      \A i \in Idx :
         /\ PresentAtStart(i) =>
               /\ SkippedOnly(i)
               /\ pc = "returned" => Len(outcomes[i]) = 1
         /\ (\E k \in 1..Len(outcomes[i]) : outcomes[i][k].kind = "Skipped") =>
               \/ In(Id(i), output_dir)
               \/ \E d \in dirs : In(Id(i), d)

\* an entry found in a nested directory was skipped
C4_Witness ==
    /\ InBatch
    /\ \E i \in Idx :
          /\ ~NoIdentifier(i)
          /\ D_x_12 \in start_tree.dirs
          /\ In(Id(i), BaseName(D_x_12))
          /\ Len(outcomes[i]) = 1

\* C5: for an entry from which no identifier can be extracted (None or the
\* empty str) article_exists is never called and no fetch unit is built; its
\* only outcome is Failed with "Invalid URL format", the failure list then
\* holds (url, "Invalid URL format"), and it has that outcome at return.
C5_InvalidUrl ==
    InBatch =>
      \A i \in Idx :
         NoIdentifier(i) =>
            /\ consulted[i] = 0
            /\ built[i] = 0
            /\ fetched[i].res = "none"
            /\ \A k \in 1..Len(outcomes[i]) :
                  outcomes[i][k] = [kind |-> "Failed", reason |-> "Invalid URL format"]
            /\ outcomes[i] # <<>> => InvalidFailure(i) \in Range(failed_urls)
            /\ pc = "returned" => Len(outcomes[i]) = 1

\* an entry without identifier and one with an empty identifier both failed
C5_Witness ==
    /\ InBatch
    /\ \E i, j \in Idx :
          /\ Id(i) = None
          /\ Id(j) = <<>>
          /\ Len(outcomes[i]) = 1
          /\ Len(outcomes[j]) = 1

\* C6 as claimed: an error raised at any step of an item, the construction of
\* the fetch unit included, becomes a Failed outcome of that item and the
\* batch is not given up.
C6_Claimed ==
    InBatch =>
      /\ pc # "aborted"
      /\ \A i \in Idx :
            (fetched[i].res \in {"raised", "ctor_raised"} /\ pc = "returned")
              => outcomes[i][1].kind = "Failed"

FirstKind(i) == prev.outcomes[i][1].kind

\* C8 as claimed: in the re-run every item Success in the first run is
\* Skipped, the fetch unit is invoked only for items that did not complete,
\* and every item the fetch unit failed in the first run is fetched again.
C8_Claimed ==
    (InBatch /\ run = 2 /\ pc = "returned") =>
       \A i \in Idx :
          /\ FirstKind(i) = "Success" => outcomes[i][1].kind = "Skipped"
          /\ built[i] >= 1 => FirstKind(i) = "Failed"
          /\ prev.fetched[i].res = "raised" => built[i] >= 1

\* a directory written for another entry, in the first run or in the re-run,
\* contains the identifier of i
CoveredAcrossRuns(i) ==
    \E j \in Idx \ {i} :
       /\ ~NoIdentifier(j)
       /\ prev.fetched[j].res = "returned" \/ fetched[j].res = "returned"
       /\ In(Id(i), ItemDir(Id(j)))

\* the fetch unit did not complete entry i in the first run: the call raised,
\* or returned a failure (which the first run counted as a Success)
FailedInFirstRun(i) == prev.fetched[i].res \in {"raised", "returned_failure"}

\* C8: in the re-run the fetch unit is built only for items the fetch unit
\* did not complete in the first run; an item the fetch unit completed or that
\* was Skipped in the first run is Skipped without a fetch; an item the fetch
\* unit did not complete in the first run, once the re-run returned, was
\* fetched again, or was Skipped because a directory written for another
\* entry contains its identifier.
C8_Resumable ==
    (InBatch /\ run = 2) =>
       \A i \in Idx :
          /\ built[i] >= 1 => FailedInFirstRun(i)
          /\ (prev.fetched[i].res = "returned" \/ FirstKind(i) = "Skipped")
                => SkippedOnly(i)
          /\ (pc = "returned" /\ FailedInFirstRun(i)) =>
                \/ built[i] = 1
                \/ SkippedOnly(i) /\ Len(outcomes[i]) = 1 /\ CoveredAcrossRuns(i)

\* a re-run returned that skipped a first-run success and fetched a first-run
\* failure again
C8_Witness ==
    /\ InBatch
    /\ run = 2
    /\ pc = "returned"
    /\ \E i, k \in Idx :
          /\ prev.fetched[i].res = "raised" /\ built[i] = 1
          /\ FirstKind(k) = "Success" /\ outcomes[k][1].kind = "Skipped"

\* ------------------------------------------------------------------------
\* process_urls: the race of the existence check, the aggregation, the end
\* of the batch
\* ------------------------------------------------------------------------
SameIdentifier(i, j) == ~NoIdentifier(i) /\ ~NoIdentifier(j) /\ Id(i) = Id(j)

\* in this step the worker holding t ends the existence check of an
\* identifier that no directory contains (and the pool is not given up)
ChecksMissing(t) ==
    /\ t.st = "start"
    /\ t \notin inflight'
    /\ pc' = "pool"
    /\ ~NoIdentifier(t.i)
    /\ ~article_exists(Id(t.i), output_dir)

\* C13: the existence check looks at the output tree only: a worker that
\* checks an identifier no directory contains goes on to the fetch unit
\* whatever the other workers hold, also while another worker is in the fetch
\* unit for the same identifier; when the fetch unit returned for two entries
\* with one identifier, both wrote the one per-item directory and both are
\* counted as downloads.
C13_Race ==
    /\ [][\A t \in inflight :
            ChecksMissing(t) =>
               [t EXCEPT !.st = "fetch"] \in inflight' /\ results' = results]_vars
    /\ [](InBatch =>
            \A i, j \in Idx :
               (/\ i # j
                /\ SameIdentifier(i, j)
                /\ fetched[i].res = "returned"
                /\ fetched[j].res = "returned")
                  => /\ ItemDir(Id(i)) \in dirs
                     /\ pc = "returned" => success_count >= 2)

\* two entries with one identifier were both fetched and both wrote
C13_Witness ==
    /\ pc = "returned"
    /\ \E i, j \in Idx :
          /\ i # j
          /\ SameIdentifier(i, j)
          /\ built[i] = 1 /\ fetched[i].res = "returned"
          /\ built[j] = 1 /\ fetched[j].res = "returned"
          /\ ItemDir(Id(i)) \in dirs

\* C14 as claimed: an entry for which the fetch unit signalled a failure, by
\* raising or by returning one, has the outcome Failed and is never counted
\* as a Success; a Success is an entry the fetch unit completed.
C14_Claimed ==
    InBatch =>
      \A i \in Idx :
         /\ fetched[i].res \in {"raised", "returned_failure"} =>
               \A k \in 1..Len(outcomes[i]) : outcomes[i][k].kind = "Failed"
         /\ (\E k \in 1..Len(outcomes[i]) : outcomes[i][k].kind = "Success") =>
               fetched[i].res = "returned"

\* C16 as claimed: a batch never stops short of returning (every step of a
\* batch consumes a task, a check, a fetch or a result, so a batch that can
\* always take a step returns), and it returns with processed = len(urls).
C16_Claimed ==
    InBatch =>
      \/ pc = "returned" /\ processed = Len(urls)
      \/ pc = "pool" /\ ENABLED Next

\* occurrences of e in the sequence s
Count(e, s) == Cardinality({k \in 1..Len(s) : s[k] = e})

\* the Failed outcomes consumed so far of the entries whose URL and reason are
\* those of the pair e
FailedOutcomes(e) ==
    {<<i, k>> \in Idx \X Idx :
        /\ urls[i] = e[1]
        /\ k <= Len(outcomes[i])
        /\ outcomes[i][k] = [kind |-> "Failed", reason |-> e[2]]}

\* the reason of a failure of entry i
ReasonOf(i) == IF NoIdentifier(i) THEN "Invalid URL format" ELSE fetched[i].err

\* C17: the processed count is success_count + failure_count + skipped_count
\* and at most len(urls); failure_count is the length of the failure list;
\* every failure-list entry is the URL of a worklist entry whose outcome is
\* Failed, paired with that entry's reason, and each Failed outcome is listed
\* once, whatever the order in which the results arrive.
C17_Aggregator ==
    InBatch =>
      /\ processed = success_count + failure_count + skipped_count
      /\ processed <= Len(urls)
      /\ failure_count = Len(failed_urls)
      /\ \A e \in Range(failed_urls) :
            /\ Count(e, failed_urls) = Cardinality(FailedOutcomes(e))
            /\ \E i \in Idx :
                  /\ e = <<urls[i], ReasonOf(i)>>
                  /\ outcomes[i] # <<>>
                  /\ outcomes[i][1].kind = "Failed"
      /\ \A i \in Idx :
            (outcomes[i] # <<>> /\ outcomes[i][1].kind = "Failed") =>
               <<urls[i], ReasonOf(i)>> \in Range(failed_urls)

\* two failures with different reasons were consumed against the order of
\* the list: the later entry's result came first
C17_Witness ==
    /\ pc = "returned"
    /\ \E i, j \in Idx :
          /\ i < j
          /\ fetched[i].res = "raised"
          /\ NoIdentifier(j)
          /\ failed_urls = << <<urls[j], "Invalid URL format">>,
                              <<urls[i], fetched[i].err>> >>

\* ------------------------------------------------------------------------
\* process_urls: the report as a function of the worklist, the tree at the
\* start and what the fetch unit does for each URL
\* ------------------------------------------------------------------------
\* the URLs the fetch unit can be asked for
Fetchable == {u \in URLS : ~NotId(IdOf[u])}

\* what the fetch unit does for a URL
FetchResults ==
    {[res |-> r, err |-> "None"] : r \in {"returned", "returned_failure", "ctor_raised"}}
    \cup {[res |-> "raised", err |-> e] : e \in FetchErrors}

\* the fetch units whose result depends only on the URL and that did what
\* was seen in this run
AgreeingUnits ==
    {o \in [Fetchable -> FetchResults] :
        \A i \in Idx : fetched[i].res # "none" => fetched[i] = o[urls[i]]}

ExistsIn(article_id, out, ds) == \E root \in WalkRoots(out, ds) : In(article_id, root)

NoResult == [success |-> 0, failure |-> 0, skipped |-> 0, failed |-> <<>>, raised |-> FALSE]

\* process_single_url over the entries k.. one after the other, in the order
\* of the list, with the fetch unit o and the directories ds; acc is the
\* report so far
RECURSIVE OneByOne(_, _, _, _)
OneByOne(k, o, ds, acc) ==
    IF k > Len(urls) \/ acc.raised THEN acc
    ELSE IF NoIdentifier(k)
    THEN OneByOne(k + 1, o, ds,
                  [acc EXCEPT !.failure = @ + 1, !.failed = Append(@, InvalidFailure(k))])
    ELSE IF ExistsIn(Id(k), output_dir, ds)
    THEN OneByOne(k + 1, o, ds, [acc EXCEPT !.skipped = @ + 1])
    ELSE LET f == o[urls[k]]
         IN  CASE f.res = "returned" ->
                    OneByOne(k + 1, o, ds \cup {ItemDir(Id(k))},
                             [acc EXCEPT !.success = @ + 1])
               [] f.res = "returned_failure" ->
                    OneByOne(k + 1, o, ds, [acc EXCEPT !.success = @ + 1])
               [] f.res = "raised" ->
                    OneByOne(k + 1, o, ds,
                             [acc EXCEPT !.failure = @ + 1,
                                         !.failed = Append(@, <<urls[k], f.err>>)])
               [] OTHER -> [acc EXCEPT !.raised = TRUE]

\* the report of this run is that of the one-by-one run with the fetch unit o,
\* up to the order of the failure list
SameReport(o) ==
    LET r == OneByOne(1, o, start_tree.dirs, NoResult)
    IN  /\ ~r.raised
        /\ success_count = r.success
        /\ failure_count = r.failure
        /\ skipped_count = r.skipped
        /\ \A e \in Range(failed_urls) \cup Range(r.failed) :
              Count(e, failed_urls) = Count(e, r.failed)

\* C19 as claimed: with the worklist, the tree at the start and the fetch
\* unit (a function of the URL) fixed, every run that returns reports what
\* the run that processes the entries one by one reports: the same counts and
\* the same failure entries, whatever the interleaving.
C19_Claimed == pc = "returned" => \A o \in AgreeingUnits : SameReport(o)

\* entries i and j are both missing from the tree at the start and the
\* directory written for j would contain the identifier of i
Interferes(i, j) ==
    /\ i # j
    /\ ~NoIdentifier(i) /\ ~PresentAtStart(i)
    /\ ~NoIdentifier(j) /\ ~PresentAtStart(j)
    /\ In(Id(i), ItemDir(Id(j)))

Independent == \A i, j \in Idx : ~Interferes(i, j)

\* C19: when no two entries missing from the tree at the start are such that
\* the directory the fetch unit writes for one contains the identifier of the
\* other (in particular no two of them share an identifier), every run that
\* returns reports the counts and the failure entries of the one-by-one run,
\* whatever the interleaving and the order of completion.
C19_Deterministic ==
    (pc = "returned" /\ Independent) => \A o \in AgreeingUnits : SameReport(o)

\* a run of independent entries returned whose failure list is in another
\* order than that of the one-by-one run
C19_Witness ==
    /\ pc = "returned"
    /\ Independent
    /\ success_count >= 1
    /\ \E o \in AgreeingUnits :
          /\ SameReport(o)
          /\ failed_urls # OneByOne(1, o, start_tree.dirs, NoResult).failed

\* ------------------------------------------------------------------------
\* get_article_id
\* ------------------------------------------------------------------------
\* s.split(sep) as a sequence
RECURSIVE SplitAll(_, _)
SplitAll(s, sep) ==
    IF ~In(sep, s) THEN <<s>>
    ELSE <<SplitFirst(s, sep)>>
         \o SplitAll(SubSeq(s, Find(s, sep) + Len(sep) + 1, Len(s)), sep)

\* the host and the path segments of a URL https://host/seg/...
Segments(url) == SplitAll(SubSeq(url, Len(Https) + 1, Len(url)), Slash)

\* the words of the four shapes
ShapeWords == {S_question, S_answer, S_zvideo, S_column}

\* a segment that can be an identifier: not a word of a shape
IsIdent(seg) == seg \notin ShapeWords \cup {<<"p">>, S_column \o <<"s">>}

\* the words of the shapes among the segments sg
WordsIn(sg) == {sg[k] : k \in 1..Len(sg)} \cap ShapeWords

\* the identifiers that follow `word` in the segments sg
After(sg, word) ==
    {sg[k + 1] : k \in {j \in 1..(Len(sg) - 1) : sg[j] = word /\ IsIdent(sg[j + 1])}}

\* the identifiers the four shapes give for the segments sg:
\* zhuanlan.zhihu.com/p/<id>, question/<q>/answer/<id>, zvideo/<id>, column/<id>
ArticleIds(sg) ==
    IF Len(sg) >= 3 /\ sg[1] = H_zhuanlan /\ sg[2] = <<"p">> /\ IsIdent(sg[3])
    THEN {sg[3]} ELSE {}

AnswerIds(sg) ==
    {sg[k + 3] : k \in {j \in 1..(Len(sg) - 3) :
                           /\ sg[j] = S_question
                           /\ sg[j + 2] = S_answer
                           /\ IsIdent(sg[j + 3])}}

VideoIds(sg) == After(sg, S_zvideo)

ColumnIds(sg) == After(sg, S_column)

ShapeIds(sg) == <<ArticleIds(sg), AnswerIds(sg), VideoIds(sg), ColumnIds(sg)>>

\* the words a URL of the k-th shape holds
WordsOfShape == <<{}, {S_question, S_answer}, {S_zvideo}, {S_column}>>

\* the URL starts as an article URL does
ArticlePrefix(sg) == Len(sg) >= 2 /\ sg[1] = H_zhuanlan /\ sg[2] = <<"p">>

\* no word of a shape is a segment of the URL twice
NoWordTwice(sg) ==
    \A j, k \in 1..Len(sg) : (j # k /\ sg[j] \in ShapeWords) => sg[j] # sg[k]

\* the URL has the k-th shape, once, and nothing of another shape
OnlyShape(sg, k) ==
    /\ ShapeIds(sg)[k] # {}
    /\ WordsIn(sg) = WordsOfShape[k]
    /\ NoWordTwice(sg)
    /\ k # 1 => ~ArticlePrefix(sg)

\* C12 as claimed: for a URL of one of the four shapes get_article_id returns
\* the identifier segment of that shape; for a URL of none of the four shapes
\* it returns None.
C12_Claimed ==
    id_result # "uncalled" =>
       LET sg == Segments(id_url)
       IN  /\ \A k \in 1..4 : OnlyShape(sg, k) => id_result \in ShapeIds(sg)[k]
           /\ (\A k \in 1..4 : ShapeIds(sg)[k] = {}) => id_result = None

\* ------------------------------------------------------------------------
\* article_exists
\* ------------------------------------------------------------------------
\* C7 as claimed: article_exists is true iff the name of a directory or of a
\* file below the output directory contains the identifier.
C7_Claimed == q_called => (q_result <=> InSubPath(q_id, dirs, files))

\* C7: article_exists is true iff the identifier is a substring of a piece of
\* the output directory's own path or of the name of a directory below it, at
\* any depth; file names are not looked at.
C7_ArticleExists == q_called => (q_result <=> InDirPath(q_id, output_dir, dirs))

\* only a file name contains the identifier and the answer is False
C7_Witness ==
    /\ q_called
    /\ ~q_result
    /\ \E f \in files : In(q_id, BaseName(f))

\* ------------------------------------------------------------------------
\* normalize
\* ------------------------------------------------------------------------
\* t is r without its leading and trailing whitespace
IsTrimOf(t, r) ==
    \E a, b \in 0..Len(r) :
       /\ a + b <= Len(r)
       /\ t = SubSeq(r, a + 1, Len(r) - b)
       /\ \A k \in 1..a : r[k] \in Whitespace
       /\ \A k \in (Len(r) - b + 1)..Len(r) : r[k] \in Whitespace
       /\ t # <<>> => (t[1] \notin Whitespace /\ t[Len(t)] \notin Whitespace)

Substrings(r) == {SubSeq(r, a, b) : a \in 1..(Len(r) + 1), b \in 0..Len(r)}

\* C10 as claimed: a raw string starting with "//" comes back with "https:"
\* prepended, any other raw string comes back trimmed and otherwise unchanged.
C10_Claimed ==
    normalized # None =>
       IF StartsWith(raw, S_rel) THEN normalized = S_https \o raw
       ELSE IsTrimOf(normalized, raw)

\* C10: normalize trims first: when the trimmed string starts with "//" the
\* result is the trimmed string with "https:" prepended, otherwise the result
\* is the trimmed string; the result never starts with "//".
C10_Normalize ==
    normalized # None =>
       /\ \E t \in Substrings(raw) :
             /\ IsTrimOf(t, raw)
             /\ normalized = IF StartsWith(t, S_rel) THEN S_https \o t ELSE t
       /\ ~StartsWith(normalized, S_rel)

\* a raw string with whitespace before its "//" got the scheme
C10_Witness ==
    /\ normalized # None
    /\ raw # <<>>
    /\ Head(raw) \in Whitespace
    /\ StartsWith(normalized, S_https \o S_rel)

\* ------------------------------------------------------------------------
\* the category loop of pages_to_urls.main
\* ------------------------------------------------------------------------
\* every URL occurrence of the documents read so far, in processing order
RECURSIVE Occurrences(_)
Occurrences(cs) == IF cs = <<>> THEN <<>> ELSE Head(cs).urls \o Occurrences(Tail(cs))

\* position of the first occurrence of u in s
FirstAt(u, s) == CHOOSE k \in 1..Len(s) : s[k] = u /\ \A j \in 1..(k - 1) : s[j] # u

\* URLs of the k-th document read that no earlier document holds
FirstSeenIn(k) ==
    Range(cands[k].urls) \ UNION {Range(cands[j].urls) : j \in 1..(k - 1)}

\* C9: the .html documents (whatever the case of the suffix) are all read, in
\* ascending file-name order; the merged list
\* holds every URL that occurred, each once, in the order of the first
\* occurrences; the count reported for a document is the number of URLs that
\* occur in it and in no document read before it; the written list is merged.
C9_DedupOrder ==
    cat_pc \in {"files", "done"} =>
      LET all == Occurrences(cands)
      IN  /\ \A j, k \in 1..Len(cands) : j < k => StrLess(cands[j].fn, cands[k].fn)
          /\ \A j, k \in 1..Len(merged) : j # k => merged[j] # merged[k]
          /\ Range(merged) = Range(all)
          /\ \A j, k \in 1..Len(merged) :
                j < k => FirstAt(merged[j], all) < FirstAt(merged[k], all)
          /\ Len(reported) = Len(cands)
          /\ \A k \in 1..Len(cands) : reported[k] = Cardinality(FirstSeenIn(k))
          /\ cat_pc = "done" =>
                /\ written = merged
                /\ {cands[k].fn : k \in 1..Len(cands)}
                     = {f \in listing : Len(f) >= 5
                           /\ Lower(SubSeq(f, Len(f) - 4, Len(f))) = S_html}

\* two documents were read, the second repeats a URL of the first and adds
\* one, and the first holds a URL twice
C9_Witness ==
    /\ cat_pc = "done"
    /\ Len(cands) = 2
    /\ Len(written) = 2
    /\ Len(cands[1].urls) >= 2
    /\ reported = <<1, 1>>
    /\ Range(cands[1].urls) \subseteq Range(cands[2].urls)

\* ------------------------------------------------------------------------
\* batch_download.main
\* ------------------------------------------------------------------------
\* the credential file is missing or holds no token, or URLS_DIR holds no
\* *.txt file
BadConfig ==
    \/ cookies_file = None
    \/ Strip(cookies_file) = <<>>
    \/ Glob(url_dir) = {}

\* no batch was started: no list read, no pool opened, no task handed out
NothingStarted ==
    /\ num_read = 0
    /\ pc = "off"
    /\ urls = <<>>
    /\ next_task = 1
    /\ inflight = {}
    /\ results = <<>>
    /\ cur_file = None

\* C11: when the credential file is missing or empty (or blank), or no *.txt
\* file is found in URLS_DIR, main never reaches the loop over the URL files:
\* no URL list is read, no pool is opened, no task is handed out, no fetch
\* unit is built; main goes on until it ends, and it ends with exit status 1.
C11_ConfigFatal ==
    (main_pc # "off" /\ BadConfig) =>
       /\ main_pc \in {"start", "cookies", "glob", "exit"}
       /\ NothingStarted
       /\ exit_code # 0
       /\ main_pc = "exit" => exit_code = 1
       /\ main_pc # "exit" => ENABLED MainNext

\* main ended with status 1 on an empty credential file although URL files
\* were there
C11_Witness ==
    /\ main_pc = "exit"
    /\ exit_code = 1
    /\ cookies_file = <<>>
    /\ Glob(url_dir) # {}
    /\ NothingStarted

\* the URLs of the *.txt files of a set of entries
RECURSIVE TotalUrls(_)
TotalUrls(entries) ==
    IF Glob(entries) = {} THEN 0
    ELSE LET f == CHOOSE g \in Glob(entries) : TRUE
         IN  Len(read_urls_from_file(f.lines)) + TotalUrls(entries \ {f})

\* C15: cleanup_temp_files is never called while a pool is open or a task is
\* held by a worker; before the first URL list is read it was called once,
\* and TEMP_DIR is empty until the first batch starts; when main ends
\* normally it was called exactly twice, the first time before any list was
\* read and the second time after every URL file was processed and the
\* outcome of every URL was added to the totals, and TEMP_DIR is empty.
C15_TempCleared ==
    main_pc # "off" =>
       /\ \A k \in 1..Len(clear_log) : clear_log[k].inflight = 0 /\ ~clear_log[k].pool
       /\ main_pc # "start" =>
             /\ Len(clear_log) >= 1
             /\ clear_log[1].read = 0
             /\ clear_log[1].aggregated = 0
       /\ num_read = 0 /\ main_pc # "start" => temp = {}
       /\ main_pc # "done" => Len(clear_log) <= 1
       /\ main_pc = "done" =>
             /\ Len(clear_log) = 2
             /\ clear_log[2].read = Cardinality(Glob(url_dir))
             /\ clear_log[2].aggregated = TotalUrls(url_dir)
             /\ url_files = <<>>
             /\ temp = {}

\* main ended after two URL files; both calls of cleanup_temp_files found
\* something to remove
C15_Witness ==
    /\ main_pc = "done"
    /\ num_read = 2
    /\ Len(clear_log) = 2
    /\ clear_log[1].removed # {}
    /\ clear_log[2].removed # {}

\* C18: at most MAX_PROCESSES entries are in the existence check or in the
\* fetch unit at any time, no worker holds two entries, and tasks are held
\* and results are pending only while the pool of the current URL file is
\* open: when main is between two URL files (or before the first, or after
\* the last) no task of any batch is left.
C18_BoundedParallelism ==
    main_pc # "off" =>
       /\ Cardinality(inflight) <= MAX_PROCESSES
       /\ \A s, t \in inflight : s.w = t.w => s = t
       /\ \A t \in inflight : t.i \in Idx /\ t.i < next_task
       /\ pc = "pool" => main_pc = "file"
       /\ main_pc # "file" \/ pc # "pool" => inflight = {} /\ results = <<>>

\* in the second URL file of a run both workers hold an entry and a third
\* entry waits
C18_Witness ==
    /\ main_pc = "file"
    /\ num_read = 2
    /\ Cardinality(inflight) = MAX_PROCESSES
    /\ next_task <= Len(urls)

====
